---------------------------- MODULE Spec2Model ----------------------------
(***************************************************************************)
(* CloudSecretManagerBackend                                               *)
(* (providers/google/.../cloud/secrets/secret_manager.py).                 *)
(*                                                                         *)
(* One backend object is constructed by __init__ and then answers          *)
(* get_conn_value / get_variable / get_config.  A Python str is a sequence *)
(* of one-character strings, so that concatenation and the naming pattern  *)
(* are computed character by character.  An optional value (str | None,    *)
(* list | None) is a set of at most one element: None is the empty set.    *)
(* A method is an operator from the object before the call to an effect:   *)
(* the outcome (a returned value or a raised exception), the get_secret    *)
(* calls made on the store client, the store clients built, and the object *)
(* after the call.                                                         *)
(***************************************************************************)
EXTENDS Naturals, Sequences, FiniteSets

VARIABLES
    phase,      \* "new" | "constructed" | "raised" (an exception left __init__)
    backend,    \* the object's attributes (self)
    args,       \* the project_id and impersonation_chain __init__ was called with
    ctorExc,    \* the exception that left __init__, "none" otherwise
    caught,     \* the exception __init__ caught and logged, "none" otherwise
    credCalls,  \* the calls made to get_credentials_and_project_id
    store,      \* the content of Secret Manager, by name
    nLookups,   \* lookups made on the object so far
    last,       \* the last lookup: operation, key, effect, store it ran against
    memo        \* the (operation, key, outcome) seen since the store last changed

vars == <<phase, backend, args, ctorExc, caught, credCalls, store, nLookups, last, memo>>

---------------------------------------------------------------------------
(* Bounds *)

MaxLookups == 2

MaxChain == 3

---------------------------------------------------------------------------
(* Optional values *)

None == {}

Some(x) == {x}

Get(o) == CHOOSE x \in o : TRUE

\* Python truthiness of a str | None or list | None: None, "" and [] are falsy.
Truthy(o) == o # None /\ Get(o) # <<>>

Return(v) == [kind |-> "return", value |-> v, exc |-> "none"]

Raise(e) == [kind |-> "raise", value |-> None, exc |-> e]

---------------------------------------------------------------------------
(* Strings of the program and of its documentation *)

\* [a-zA-Z0-9-_], the character class of SECRET_ID_PATTERN
SECRET_ID_PATTERN ==
    {"a", "b", "c", "d", "e", "f", "g", "h", "i", "j", "k", "l", "m", "n", "o",
     "p", "q", "r", "s", "t", "u", "v", "w", "x", "y", "z", "A", "B", "C", "D",
     "E", "F", "G", "H", "I", "J", "K", "L", "M", "N", "O", "P", "Q", "R", "S",
     "T", "U", "V", "W", "X", "Y", "Z", "0", "1", "2", "3", "4", "5", "6", "7",
     "8", "9", "-", "_"}

\* "airflow-connections", the default of connections_prefix
AirflowConnections ==
    <<"a", "i", "r", "f", "l", "o", "w", "-", "c", "o", "n", "n", "e", "c", "t",
      "i", "o", "n", "s">>

\* "airflow/connections", a prefix outside the pattern
AirflowSlashConnections ==
    <<"a", "i", "r", "f", "l", "o", "w", "/", "c", "o", "n", "n", "e", "c", "t",
      "i", "o", "n", "s">>

\* "airflow-variables", the default of variables_prefix
AirflowVariables ==
    <<"a", "i", "r", "f", "l", "o", "w", "-", "v", "a", "r", "i", "a", "b", "l",
      "e", "s">>

\* "airflow-config", the default of config_prefix
AirflowConfig ==
    <<"a", "i", "r", "f", "l", "o", "w", "-", "c", "o", "n", "f", "i", "g">>

\* "-", the default of sep
Dash == <<"-">>

\* "/", the separator BaseSecretsBackend itself defaults to; outside the pattern
Slash == <<"/">>

\* "smtp_default", the conn_id of the class docstring
SmtpDefault ==
    <<"s", "m", "t", "p", "_", "d", "e", "f", "a", "u", "l", "t">>

\* "smtp/default", a key outside the pattern
SmtpSlashDefault ==
    <<"s", "m", "t", "p", "/", "d", "e", "f", "a", "u", "l", "t">>

\* "airflow-connections-smtp_default", the secret id of the class docstring
AirflowConnectionsSmtpDefault ==
    <<"a", "i", "r", "f", "l", "o", "w", "-", "c", "o", "n", "n", "e", "c", "t",
      "i", "o", "n", "s", "-", "s", "m", "t", "p", "_", "d", "e", "f", "a", "u",
      "l", "t">>

\* "airflow-variables-smtp_default"
AirflowVariablesSmtpDefault ==
    <<"a", "i", "r", "f", "l", "o", "w", "-", "v", "a", "r", "i", "a", "b", "l",
      "e", "s", "-", "s", "m", "t", "p", "_", "d", "e", "f", "a", "u", "l", "t">>

\* "airflow-config-smtp_default"
AirflowConfigSmtpDefault ==
    <<"a", "i", "r", "f", "l", "o", "w", "-", "c", "o", "n", "f", "i", "g", "-",
      "s", "m", "t", "p", "_", "d", "e", "f", "a", "u", "l", "t">>

\* the project the credentials belong to, and a project the caller names
ProjectOfCredentials == <<"p", "c">>

ProjectOfCaller == <<"p", "1">>

\* service accounts an impersonation chain is made of
AccountNames == <<"A", "B", "C", "D", "E">>

---------------------------------------------------------------------------
(* Inputs *)

ConnectionsPrefixes == {None, Some(AirflowConnections), Some(AirflowSlashConnections)}

VariablesPrefixes == {None, Some(AirflowVariables)}

ConfigPrefixes == {None, Some(AirflowConfig)}

Separators == {Dash, Slash}

\* PROVIDE_PROJECT_ID (None), "" and a project id
ProjectIds == {None, Some(<<>>), Some(ProjectOfCaller)}

\* None, [] and the chains [A], [A, B], [A, B, C], ...
ImpersonationChains ==
    {None} \cup {Some(SubSeq(AccountNames, 1, n)) : n \in 0..MaxChain}

Keys == {SmtpDefault, SmtpSlashDefault}

\* What get_credentials_and_project_id does in the environment at hand: it
\* returns (credentials, project id), or raises.  RefreshError stands for the
\* errors __init__ does not catch.
CredentialOutcomes ==
    {[kind |-> "return", credentials |-> Some("credentials"),
      project_id |-> Some(ProjectOfCredentials), exc |-> "none"]}
    \cup {[kind |-> "raise", credentials |-> None, project_id |-> None, exc |-> e] :
            e \in {"DefaultCredentialsError", "FileNotFoundError", "RefreshError"}}

Entry(p, id, o) == [project_id |-> p, secret_id |-> id, outcome |-> o]

\* A store in which every documented secret exists.
StoreOfValues ==
    {Entry(ProjectOfCredentials, AirflowConnectionsSmtpDefault, Return(Some(<<"v", "1">>))),
     Entry(ProjectOfCaller, AirflowConnectionsSmtpDefault, Return(Some(<<"v", "2">>))),
     Entry(ProjectOfCredentials, AirflowVariablesSmtpDefault, Return(Some(<<"v", "3">>))),
     Entry(ProjectOfCaller, AirflowVariablesSmtpDefault, Return(Some(<<"v", "4">>))),
     Entry(ProjectOfCredentials, AirflowConfigSmtpDefault, Return(Some(<<"v", "5">>)))}

\* A store whose client fails on most of them.
StoreOfFailures ==
    {Entry(ProjectOfCredentials, AirflowConnectionsSmtpDefault, Raise("PermissionDenied")),
     Entry(ProjectOfCaller, AirflowConnectionsSmtpDefault, Raise("NotFound")),
     Entry(ProjectOfCredentials, AirflowVariablesSmtpDefault, Raise("ServiceUnavailable")),
     Entry(ProjectOfCaller, AirflowVariablesSmtpDefault, Return(Some(<<"v", "6">>)))}

StoreContents == {"values", "failures"}

Content(name) == IF name = "values" THEN StoreOfValues ELSE StoreOfFailures

---------------------------------------------------------------------------
(* Collaborators *)

\* _SecretManagerClient.is_valid_secret_name: the name matches SECRET_ID_PATTERN
is_valid_secret_name(name) ==
    \A i \in 1..Len(name) : name[i] \in SECRET_ID_PATTERN

\* BaseSecretsBackend.build_path: prefix, separator and key, concatenated
build_path(path_prefix, secret_id, sep) == path_prefix \o sep \o secret_id

\* _get_target_principal_and_delegates on a non-empty list: the last account
\* is the target, the accounts before it are the delegates, in their order
get_target_principal_and_delegates(chain) ==
    <<Some(chain[Len(chain)]), Some(SubSeq(chain, 1, Len(chain) - 1))>>

\* _SecretManagerClient.get_secret against the store content named st: the value
\* held under (project_id, secret_id), None when there is none, or the
\* failure the store answers with
client_get_secret(st, secret_id, project_id) ==
    LET hits == {e \in Content(st) : e.secret_id = secret_id /\ Some(e.project_id) = project_id}
    IN  IF hits = {} THEN Return(None) ELSE (CHOOSE e \in hits : TRUE).outcome

---------------------------------------------------------------------------
(* __init__ *)

Unconstructed ==
    [connections_prefix |-> None, variables_prefix |-> None, config_prefix |-> None,
     sep |-> <<>>, credentials |-> None, project_id |-> None, assigned |-> {}]

\* Only the prefix is checked, the separator is forgotten.
is_valid_prefix_without_sep(self) ==
    is_valid_secret_name(Get(self.connections_prefix))

_is_valid_prefix_and_sep(self) ==
    is_valid_secret_name(Get(self.connections_prefix) \o self.sep)

\* The first account of the chain is taken as the target, the rest as delegates.
ResolveImpersonationFromTheFront(impersonation_chain) ==
    IF Truthy(impersonation_chain)
    THEN <<Some(Head(Get(impersonation_chain))), Some(Tail(Get(impersonation_chain)))>>
    ELSE <<None, None>>

\* lines 114-118: target principal and delegates handed to the credentials call
ResolveImpersonation(impersonation_chain) ==
    IF Truthy(impersonation_chain)
    THEN get_target_principal_and_delegates(Get(impersonation_chain))
    ELSE <<None, None>>

\* Only DefaultCredentialsError is caught.
CaughtDefaultCredentialsErrorOnly(exc) == exc = "DefaultCredentialsError"

\* the except clause of line 128
CaughtByInit(exc) == exc \in {"DefaultCredentialsError", "FileNotFoundError"}

\* The caller's project id only fills in for a missing one.
ProvideProjectIdWhenMissing(self, project_id) ==
    IF Truthy(project_id) /\ ~("project_id" \in self.assigned /\ Truthy(self.project_id))
    THEN [self EXCEPT !.project_id = project_id,
                      !.assigned = @ \cup {"project_id"}]
    ELSE self

\* lines 135-137: "In case project id provided"
ProvideProjectId(self, project_id) ==
    IF Truthy(project_id)
    THEN [self EXCEPT !.project_id = project_id,
                      !.assigned = @ \cup {"project_id"}]
    ELSE self

Init ==
    /\ phase = "new"
    /\ backend = Unconstructed
    /\ args = [project_id |-> None, impersonation_chain |-> None]
    /\ ctorExc = "none"
    /\ caught = "none"
    /\ credCalls = <<>>
    /\ store \in StoreContents
    /\ nLookups = 0
    /\ last = [op |-> "none", key |-> <<>>, outcome |-> Return(None), calls |-> <<>>,
               clients |-> 0, again |-> FALSE, store |-> "none"]
    /\ memo = {}

__init__(connections_prefix, variables_prefix, config_prefix, project_id, sep, impersonation_chain, resolved) ==
    LET s1 == [Unconstructed EXCEPT !.connections_prefix = connections_prefix,
                                    !.variables_prefix = variables_prefix,
                                    !.config_prefix = config_prefix,
                                    !.sep = sep]
        pd == ResolveImpersonation(impersonation_chain)
        call == [target_principal |-> pd[1], delegates |-> pd[2], outcome |-> resolved]
        s2 == IF resolved.kind = "return"
              THEN [s1 EXCEPT !.credentials = resolved.credentials,
                              !.project_id = resolved.project_id,
                              !.assigned = {"credentials", "project_id"}]
              ELSE s1
    IN  /\ phase = "new"
        /\ args' = [project_id |-> project_id, impersonation_chain |-> impersonation_chain]
        /\ IF connections_prefix # None /\ ~_is_valid_prefix_and_sep(s1)
           THEN /\ phase' = "raised"
                /\ ctorExc' = "AirflowException"
                /\ backend' = s1
                /\ UNCHANGED <<caught, credCalls>>
           ELSE IF resolved.kind = "raise" /\ ~CaughtByInit(resolved.exc)
           THEN /\ phase' = "raised"
                /\ ctorExc' = resolved.exc
                /\ backend' = s2
                /\ credCalls' = <<call>>
                /\ UNCHANGED caught
           ELSE /\ phase' = "constructed"
                /\ backend' = ProvideProjectId(s2, project_id)
                /\ credCalls' = <<call>>
                /\ caught' = (IF resolved.kind = "raise" THEN resolved.exc ELSE "none")
                /\ UNCHANGED ctorExc
        /\ UNCHANGED <<store, nLookups, last, memo>>

Construct ==
    \E cp \in ConnectionsPrefixes, vp \in VariablesPrefixes, fp \in ConfigPrefixes,
       p \in ProjectIds, s \in Separators, ch \in ImpersonationChains,
       r \in CredentialOutcomes :
        __init__(cp, vp, fp, p, s, ch, r)

---------------------------------------------------------------------------
(* Lookups *)

Effect(outcome, calls, clients, self) ==
    [outcome |-> outcome, calls |-> calls, clients |-> clients, self |-> self]

\* The client property: a new _SecretManagerClient around self.credentials,
\* an attribute __init__ assigns only when the credentials were resolved.
client(self) ==
    IF "credentials" \in self.assigned
    THEN Return(self.credentials)
    ELSE Raise("AttributeError")

\* A failure of the store client is turned into None.
get_secret_swallowing_failures(self, st, path_prefix, secret_id) ==
    LET full == build_path(path_prefix, secret_id, self.sep)
        c == client(self)
        o == client_get_secret(st, full, self.project_id)
    IN  IF c.kind = "raise"
        THEN Effect(c, <<>>, 0, self)
        ELSE IF "project_id" \notin self.assigned
        THEN Effect(Raise("AttributeError"), <<>>, 1, self)
        ELSE Effect(IF o.kind = "raise" THEN Return(None) ELSE o,
                    <<[secret_id |-> full, project_id |-> self.project_id]>>, 1, self)

\* The credentials are dropped from the object once a client was built on them.
get_secret_dropping_credentials(self, st, path_prefix, secret_id) ==
    LET full == build_path(path_prefix, secret_id, self.sep)
        c == client(self)
        after == [self EXCEPT !.credentials = None, !.assigned = @ \ {"credentials"}]
    IN  IF c.kind = "raise"
        THEN Effect(c, <<>>, 0, self)
        ELSE IF "project_id" \notin self.assigned
        THEN Effect(Raise("AttributeError"), <<>>, 1, after)
        ELSE Effect(client_get_secret(st, full, self.project_id),
                    <<[secret_id |-> full, project_id |-> self.project_id]>>, 1, after)

_get_secret(self, st, path_prefix, secret_id) ==
    LET full == build_path(path_prefix, secret_id, self.sep)
        c == client(self)
    IN  IF c.kind = "raise"
        THEN Effect(c, <<>>, 0, self)
        ELSE IF "project_id" \notin self.assigned
        THEN Effect(Raise("AttributeError"), <<>>, 1, self)
        ELSE Effect(client_get_secret(st, full, self.project_id),
                    <<[secret_id |-> full, project_id |-> self.project_id]>>, 1, self)

get_conn_value(self, st, conn_id) ==
    IF self.connections_prefix = None
    THEN Effect(Return(None), <<>>, 0, self)
    ELSE _get_secret(self, st, Get(self.connections_prefix), conn_id)

\* The variable is looked up under the connections prefix.
get_variable_under_connections_prefix(self, st, key) ==
    IF self.variables_prefix = None
    THEN Effect(Return(None), <<>>, 0, self)
    ELSE IF self.connections_prefix = None
    THEN Effect(Raise("TypeError"), <<>>, 0, self)
    ELSE _get_secret(self, st, Get(self.connections_prefix), key)

get_variable(self, st, key) ==
    IF self.variables_prefix = None
    THEN Effect(Return(None), <<>>, 0, self)
    ELSE _get_secret(self, st, Get(self.variables_prefix), key)

\* The config lookup is gated by the variables prefix.
get_config_gated_by_variables_prefix(self, st, key) ==
    IF self.variables_prefix = None
    THEN Effect(Return(None), <<>>, 0, self)
    ELSE IF self.config_prefix = None
    THEN Effect(Raise("TypeError"), <<>>, 0, self)
    ELSE _get_secret(self, st, Get(self.config_prefix), key)

get_config(self, st, key) ==
    IF self.config_prefix = None
    THEN Effect(Return(None), <<>>, 0, self)
    ELSE _get_secret(self, st, Get(self.config_prefix), key)

\* A caller invokes operation op with key on the constructed object.
Lookup(op, key, eff) ==
    /\ phase = "constructed"
    /\ nLookups < MaxLookups
    /\ backend' = eff.self
    /\ nLookups' = nLookups + 1
    /\ last' = [op |-> op, key |-> key, outcome |-> eff.outcome, calls |-> eff.calls,
                clients |-> eff.clients,
                again |-> (\E m \in memo : m.op = op /\ m.key = key),
                store |-> store]
    /\ memo' = memo \cup {[op |-> op, key |-> key, outcome |-> eff.outcome]}
    /\ UNCHANGED <<phase, args, ctorExc, caught, credCalls, store>>

CallGetConnValue ==
    \E k \in Keys : Lookup("get_conn_value", k, get_conn_value(backend, store, k))

CallGetVariable ==
    \E k \in Keys : Lookup("get_variable", k, get_variable(backend, store, k))

CallGetConfig ==
    \E k \in Keys : Lookup("get_config", k, get_config(backend, store, k))

\* Secrets are added, removed or locked in Secret Manager by others.
StoreChange ==
    /\ phase = "constructed"
    /\ store' \in StoreContents \ {store}
    /\ memo' = {}
    /\ UNCHANGED <<phase, backend, args, ctorExc, caught, credCalls, nLookups, last>>

Next ==
    \/ Construct
    \/ CallGetConnValue
    \/ CallGetVariable
    \/ CallGetConfig
    \/ StoreChange

Spec == Init /\ [][Next]_vars

---------------------------------------------------------------------------
(* Properties *)

Looked == last.op # "none"

\* The prefix the last operation is gated by and builds its identifier from.
OwnPrefix ==
    CASE last.op = "get_conn_value" -> backend.connections_prefix
      [] last.op = "get_variable" -> backend.variables_prefix
      [] OTHER -> backend.config_prefix

\* __init__ resolved credentials: self.credentials exists.
HasCredentials == "credentials" \in backend.assigned

\* The store the last lookup ran against holds a value under the identifier
\* own prefix + sep + key, in the project of the object.
HeldValues ==
    {e \in Content(last.store) :
        /\ e.secret_id = Get(OwnPrefix) \o backend.sep \o last.key
        /\ "project_id" \in backend.assigned
        /\ Some(e.project_id) = backend.project_id
        /\ e.outcome.kind = "return"
        /\ e.outcome.value # None}

\* C1, as stated: a lookup whose prefix is enabled returns the value the store
\* holds under prefix + sep + key in the object's project, whenever there is
\* one; a lookup whose prefix is None returns None without raising.
C1_AsStated ==
    Looked =>
        IF OwnPrefix = None
        THEN last.outcome = Return(None)
        ELSE \A e \in HeldValues : last.outcome = e.outcome

\* C1, amended: on an object whose credentials were resolved at construction,
\* a lookup whose prefix is enabled returns the value the store holds under
\* prefix + sep + key in the object's project, whenever there is one; on any
\* object, a lookup whose prefix is None returns None without raising.
C1_ReturnsHeldValue ==
    Looked =>
        IF OwnPrefix = None
        THEN last.outcome = Return(None)
        ELSE HasCredentials => \A e \in HeldValues : last.outcome = e.outcome

\* get_conn_value("smtp_default") under "airflow-connections" and "-" asked for
\* "airflow-connections-smtp_default" and returned the value held there.
C1_Witness ==
    /\ last.op = "get_conn_value"
    /\ last.key = SmtpDefault
    /\ backend.connections_prefix = Some(AirflowConnections)
    /\ backend.sep = Dash
    /\ HeldValues # {}
    /\ last.calls # <<>>
    /\ last.calls[1].secret_id = AirflowConnectionsSmtpDefault
    /\ last.outcome = Return(Some(<<"v", "1">>))

\* C2: once __init__ ran with a connections prefix whose concatenation with
\* the separator has a character outside [a-zA-Z0-9-_], AirflowException left
\* it, before any credentials were asked for, and no attribute beyond the
\* prefixes and the separator, no lookup and no store call exists.
C2_InvalidPrefixRaises ==
    (/\ phase # "new"
     /\ backend.connections_prefix # None
     /\ \E i \in 1..Len(Get(backend.connections_prefix) \o backend.sep) :
            (Get(backend.connections_prefix) \o backend.sep)[i] \notin SECRET_ID_PATTERN)
    => /\ phase = "raised"
       /\ ctorExc = "AirflowException"
       /\ credCalls = <<>>
       /\ backend.assigned = {}
       /\ nLookups = 0
       /\ ~Looked

\* "airflow-connections" with the separator "/" was refused.
C2_Witness ==
    /\ phase = "raised"
    /\ ctorExc = "AirflowException"
    /\ backend.connections_prefix = Some(AirflowConnections)
    /\ backend.sep = Slash
    /\ credCalls = <<>>

\* The credentials call of __init__ raised an error __init__ recognises.
CredentialsNotFound ==
    /\ credCalls # <<>>
    /\ credCalls[1].outcome.kind = "raise"
    /\ credCalls[1].outcome.exc \in {"DefaultCredentialsError", "FileNotFoundError"}

\* C3, as stated: when the credentials call raises DefaultCredentialsError or
\* FileNotFoundError, __init__ completes, and every later lookup raises.
C3_AsStated ==
    CredentialsNotFound =>
        /\ phase = "constructed"
        /\ ctorExc = "none"
        /\ Looked => last.outcome.kind = "raise"

\* C3, amended: when the credentials call raises DefaultCredentialsError or
\* FileNotFoundError, __init__ completes with the error caught; every later
\* lookup whose prefix is enabled raises AttributeError before any store
\* call, and a lookup whose prefix is None returns None.
C3_DegradedLookupsFail ==
    CredentialsNotFound =>
        /\ phase = "constructed"
        /\ ctorExc = "none"
        /\ caught = credCalls[1].outcome.exc
        /\ ~HasCredentials
        /\ Looked =>
            IF OwnPrefix = None
            THEN last.outcome = Return(None)
            ELSE /\ last.outcome = Raise("AttributeError")
                 /\ last.calls = <<>>

\* A lookup with an enabled prefix failed on an object built without a key file.
C3_Witness ==
    /\ phase = "constructed"
    /\ caught = "FileNotFoundError"
    /\ Looked
    /\ OwnPrefix # None
    /\ last.outcome = Raise("AttributeError")

\* C4: a lookup whose prefix is None builds no store client and makes no
\* get_secret call; whether a lookup sends a request depends on its own prefix
\* (and on the credentials), never on the two other prefixes.
C4_DisabledPrefixSendsNothing ==
    Looked =>
        /\ OwnPrefix = None => last.calls = <<>> /\ last.clients = 0
        /\ (OwnPrefix # None /\ HasCredentials) =>
                Len(last.calls) = 1 /\ last.clients = 1

\* A variable was fetched from the store and then a connection lookup, its
\* prefix None, asked the store nothing.
C4_Witness ==
    /\ last.op = "get_conn_value"
    /\ backend.connections_prefix = None
    /\ last.calls = <<>>
    /\ last.clients = 0
    /\ \E m \in memo : m.op = "get_variable" /\ m.outcome.value # None

\* The project id get_secret is to be called with.
EffectiveProjectId ==
    IF Truthy(args.project_id)
    THEN args.project_id
    ELSE credCalls[1].outcome.project_id

\* C5: every get_secret call passes the project id given to __init__ when one
\* was given (a non-empty string), and the project id the credentials call
\* returned otherwise.
C5_ProjectIdOverride ==
    \A i \in 1..Len(last.calls) : last.calls[i].project_id = EffectiveProjectId

\* The credentials came with their project, and the caller's project was used.
C5_Witness ==
    /\ args.project_id = Some(ProjectOfCaller)
    /\ credCalls # <<>>
    /\ credCalls[1].outcome.project_id = Some(ProjectOfCredentials)
    /\ last.calls # <<>>
    /\ last.calls[1].project_id = Some(ProjectOfCaller)

\* C6: the credentials call gets the last account of a non-empty impersonation
\* chain as target principal and the accounts before it, in their order, as
\* delegates; with no chain (None or []) it gets None for both.
C6_ImpersonationChainSplit ==
    credCalls # <<>> =>
        LET chain == args.impersonation_chain
            call == credCalls[1]
        IN  IF chain # None /\ Get(chain) # <<>>
            THEN /\ call.target_principal = Some(Get(chain)[Len(Get(chain))])
                 /\ call.delegates # None
                 /\ Len(Get(call.delegates)) = Len(Get(chain)) - 1
                 /\ \A i \in 1..Len(Get(call.delegates)) :
                        Get(call.delegates)[i] = Get(chain)[i]
            ELSE call.target_principal = None /\ call.delegates = None

\* [A, B, C] gave target C and delegates [A, B].
C6_Witness ==
    /\ args.impersonation_chain = Some(<<"A", "B", "C">>)
    /\ credCalls # <<>>
    /\ credCalls[1].target_principal = Some("C")
    /\ credCalls[1].delegates = Some(<<"A", "B">>)

\* C7: a lookup leaves every attribute of the object as it was, and a lookup
\* repeated while the store has not changed gives the outcome it gave before,
\* whatever lookups were made in between.
C7_LookupsIdempotent ==
    [][nLookups' # nLookups =>
        /\ backend' = backend
        /\ \A m \in memo :
            (m.op = last'.op /\ m.key = last'.key) => m.outcome = last'.outcome]_vars

\* The same lookup was made twice and returned a value.
C7_Witness ==
    /\ last.again
    /\ last.outcome.kind = "return"
    /\ last.outcome.value # None
    /\ nLookups = MaxLookups

\* The one get_secret call of the last lookup asks for own prefix + sep + key,
\* and what it gave is what the lookup gave.
OneCallPassedThrough ==
    /\ Len(last.calls) = 1
    /\ last.calls[1].secret_id = build_path(Get(OwnPrefix), last.key, backend.sep)
    /\ last.outcome =
         client_get_secret(last.store, last.calls[1].secret_id, last.calls[1].project_id)

\* C8, as stated: a lookup with an enabled prefix makes exactly one get_secret
\* call, and that call's result or failure is the lookup's.
C8_AsStated == (Looked /\ OwnPrefix # None) => OneCallPassedThrough

\* C8, amended: on an object whose credentials were resolved at construction,
\* a lookup with an enabled prefix makes exactly one get_secret call, and that
\* call's result or failure is the lookup's.
C8_FailuresPassThrough ==
    (Looked /\ OwnPrefix # None /\ HasCredentials) => OneCallPassedThrough

\* The store denied access and the lookup raised the same error after one call.
C8_Witness ==
    /\ Looked
    /\ OwnPrefix # None
    /\ Len(last.calls) = 1
    /\ last.outcome = Raise("PermissionDenied")

\* C9: in a constructed object every prefix that is not None, concatenated
\* with the separator, matches SECRET_ID_PATTERN.
C9_AsStated ==
    phase = "constructed" =>
        \A p \in {backend.connections_prefix, backend.variables_prefix,
                  backend.config_prefix} :
            p # None => is_valid_secret_name(Get(p) \o backend.sep)

\* C10: every secret id handed to get_secret matches SECRET_ID_PATTERN.
C10_AsStated ==
    \A i \in 1..Len(last.calls) : is_valid_secret_name(last.calls[i].secret_id)

=============================================================================
